---- MODULE Spec2Model ----
\* EventThrottler (src/event_throttler/throttler.py): a per-key sliding-window
\* throttle shared by several threads and guarded by one threading.RLock.
\* Every method body is a `with self._lock:` block; the model follows each
\* thread through the acquisition of the lock, the statements of the block
\* and the release of the lock on the way out. The state of an instance is
\* indexed by the instance, so that several instances can live side by side;
\* the module-level logger and its handler are shared by all of them.
EXTENDS Integers, Sequences, FiniteSets, TLC

\* ---------------------------------------------------------------- bounds
MaxTs == 2
MaxWindow == 2

\* config.py: DEFAULT_WINDOW, the constructor's default window.
DEFAULT_WINDOW == 10

Threads == {"t1", "t2"}
\* Keys are opaque strings; the empty string is a key like any other.
Keys == {"userA", ""}
EventIds == {"e1", "e2"}
Timestamps == (0 - 1) .. MaxTs
Windows == (0 - 1) .. MaxWindow

NoThread == "none"
\* throttler = EventThrottler(...): the instance of the single-instance programs
Main == "throttler"

VARIABLES
    window,                     \* per instance: self._window
    last_processed_timestamps,  \* per instance: self._last_processed_timestamps (a dict)
    lock_owner,                 \* per instance: self._lock, the thread that holds the RLock
    lock_count,                 \* per instance: self._lock, the RLock's recursion count
    log_owner,                  \* the thread that holds the lock of the logger's handler
    pc,                         \* per thread: the statement it is at
    call,                       \* per thread: the method invoked, its instance and arguments
    local,                      \* per thread: last_timestamp, time_diff
    ret,                        \* per thread: the value being returned
    snap,                       \* per thread: map and window seen when the lock was taken
    accepted,                   \* history, per instance: per key, the timestamp of the last call that returned True
    in_force,                   \* history, per instance: the window of the last update_window that returned
    seen,                       \* history, per instance: the keys passed to should_process since the last clear
    script,                     \* per thread: the calls its worker makes, in order
    user_results,               \* per thread: the results its worker collected, in order
    scenario                    \* which program drives the engine

vars == <<window, last_processed_timestamps, lock_owner, lock_count, log_owner, pc, call,
          local, ret, snap, accepted, in_force, seen, script, user_results, scenario>>

\* ---------------------------------------------------------------- values
EmptyMap == <<>>

NoCall == [op |-> "none", engine |-> Main, timestamp |-> 0, event_id |-> "", key |-> "",
           new_window |-> 0]
NoLocal == [last_timestamp |-> 0, time_diff |-> 0]
NoSnap == [window |-> 0, map |-> EmptyMap]
\* The Python value a method returns: None, a bool or an int.
None == [type |-> "NoneType", bool |-> FALSE, int |-> 0]
PyBool(b) == [type |-> "bool", bool |-> b, int |-> 0]
PyInt(n) == [type |-> "int", bool |-> FALSE, int |-> n]

ShouldProcessCall(ts, id, k) ==
    [op |-> "should_process", engine |-> Main, timestamp |-> ts, event_id |-> id, key |-> k,
     new_window |-> 0]
UpdateWindowCall(w) ==
    [op |-> "update_window", engine |-> Main, timestamp |-> 0, event_id |-> "", key |-> "",
     new_window |-> w]
PlainCall(name) ==
    [op |-> name, engine |-> Main, timestamp |-> 0, event_id |-> "", key |-> "",
     new_window |-> 0]
\* the same call on instance e
On(e, c) == [c EXCEPT !.engine = e]

\* The instance a thread's call is on, and that instance's fields.
EngineOf(t) == call[t].engine
Map(t) == last_processed_timestamps[EngineOf(t)]
Window(t) == window[EngineOf(t)]

\* Bug variant: one timestamp shared by all keys instead of one per key.
DictSet_Global(d, k, v) == [x \in DOMAIN d \cup {k} |-> v]

\* d[k] = v on a dict
DictSet(d, k, v) == [x \in DOMAIN d \cup {k} |-> IF x = k THEN v ELSE d[x]]

\* The calls a caller may make in the unscripted specification.
Calls ==
    {ShouldProcessCall(ts, id, k) : ts \in Timestamps, id \in EventIds, k \in Keys}
    \cup {UpdateWindowCall(w) : w \in Windows}
    \cup {PlainCall("get_window"), PlainCall("clear"), PlainCall("get_key_count")}

\* First statement inside the `with` block of each method.
Entry(op) ==
    CASE op = "should_process" -> "check"
      [] op = "update_window" -> "uw"
      [] op = "get_window" -> "gw"
      [] op = "clear" -> "clr"
      [] op = "get_key_count" -> "gkc"

\* Bug variant: the block is entered without waiting for the lock.
CanAcquire_NoLock(t) == TRUE

\* ---------------------------------------------------------------- the lock
\* threading.RLock.acquire: free, or already held by the caller.
CanAcquire(t) == lock_owner[EngineOf(t)] = NoThread \/ lock_owner[EngineOf(t)] = t

\* ---------------------------------------------------------------- Init
\* Instances es, each as EventThrottler.__init__ leaves it, and threads ts
\* outside every instance.
Constructed(es, ts) ==
    /\ window \in [es -> Windows \cup {DEFAULT_WINDOW}]
    /\ last_processed_timestamps = [e \in es |-> EmptyMap]
    /\ lock_owner = [e \in es |-> NoThread]
    /\ lock_count = [e \in es |-> 0]
    /\ log_owner = NoThread
    /\ pc = [t \in ts |-> "idle"]
    /\ call = [t \in ts |-> NoCall]
    /\ local = [t \in ts |-> NoLocal]
    /\ ret = [t \in ts |-> None]
    /\ snap = [t \in ts |-> NoSnap]
    /\ accepted = [e \in es |-> EmptyMap]
    /\ in_force = window
    /\ seen = [e \in es |-> {}]
    /\ user_results = [t \in ts |-> <<>>]

\* EventThrottler.__init__(window)
Init ==
    /\ Constructed({Main}, Threads)
    /\ window[Main] \in Windows
    /\ script = [t \in Threads |-> <<>>]
    /\ scenario = "free"

\* ---------------------------------------------------------------- actions
\* A caller invokes one of the calls cs.
CallFrom(t, cs) ==
    /\ pc[t] = "idle"
    /\ \E c \in cs : call' = [call EXCEPT ![t] = c]
    /\ pc' = [pc EXCEPT ![t] = "lock"]
    /\ UNCHANGED <<window, last_processed_timestamps, lock_owner, lock_count, log_owner,
                   local, ret, snap, accepted, in_force, seen, script, user_results, scenario>>

\* A caller invokes one of the five methods.
Call(t) == CallFrom(t, Calls)

\* with self._lock:  (__enter__)
Acquire(t) ==
    /\ pc[t] = "lock"
    /\ CanAcquire(t)
    /\ lock_owner' = [lock_owner EXCEPT ![EngineOf(t)] = t]
    /\ lock_count' = [lock_count EXCEPT ![EngineOf(t)] = @ + 1]
    /\ snap' = [snap EXCEPT ![t] = [window |-> Window(t), map |-> Map(t)]]
    /\ pc' = [pc EXCEPT ![t] = Entry(call[t].op)]
    /\ UNCHANGED <<window, last_processed_timestamps, log_owner, call, local, ret,
                   accepted, in_force, seen, script, user_results, scenario>>

\* if key not in self._last_processed_timestamps:
SP_Check(t) ==
    /\ pc[t] = "check"
    /\ pc' = [pc EXCEPT ![t] =
                IF call[t].key \notin DOMAIN Map(t)
                THEN "new" ELSE "read"]
    /\ UNCHANGED <<window, last_processed_timestamps, lock_owner, lock_count, log_owner, call,
                   local, ret, snap, accepted, in_force, seen, script, user_results, scenario>>

\* Bug variant: a first event with a negative timestamp is rejected as invalid.
SP_New_RejectsNegative(t) ==
    /\ pc[t] = "new"
    /\ pc' = [pc EXCEPT ![t] = "exit"]
    /\ IF call[t].timestamp < 0
       THEN /\ last_processed_timestamps' = last_processed_timestamps
            /\ ret' = [ret EXCEPT ![t] = PyBool(FALSE)]
       ELSE /\ last_processed_timestamps' =
                   [last_processed_timestamps EXCEPT ![EngineOf(t)] =
                       DictSet(@, call[t].key, call[t].timestamp)]
            /\ ret' = [ret EXCEPT ![t] = PyBool(TRUE)]
    /\ UNCHANGED <<window, lock_owner, lock_count, log_owner, call, local, snap,
                   accepted, in_force, seen, script, user_results, scenario>>

\* Bug variant: the timestamp is stored under the event id instead of the key.
SP_New_KeyedByEventId(t) ==
    /\ pc[t] = "new"
    /\ last_processed_timestamps' =
           [last_processed_timestamps EXCEPT ![EngineOf(t)] =
               DictSet(@, call[t].event_id, call[t].timestamp)]
    /\ pc' = [pc EXCEPT ![t] = "exit"]
    /\ ret' = [ret EXCEPT ![t] = PyBool(TRUE)]
    /\ UNCHANGED <<window, lock_owner, lock_count, log_owner, call, local, snap,
                   accepted, in_force, seen, script, user_results, scenario>>

\* self._last_processed_timestamps[key] = timestamp; return True
SP_New(t) ==
    /\ pc[t] = "new"
    /\ last_processed_timestamps' =
           [last_processed_timestamps EXCEPT ![EngineOf(t)] =
               DictSet(@, call[t].key, call[t].timestamp)]
    /\ pc' = [pc EXCEPT ![t] = "exit"]
    /\ ret' = [ret EXCEPT ![t] = PyBool(TRUE)]
    /\ UNCHANGED <<window, lock_owner, lock_count, log_owner, call, local, snap,
                   accepted, in_force, seen, script, user_results, scenario>>

\* last_timestamp = self._last_processed_timestamps[key]
\* time_diff = timestamp - last_timestamp
SP_Read(t) ==
    /\ pc[t] = "read"
    /\ call[t].key \in DOMAIN Map(t)   \* otherwise KeyError
    /\ LET last_timestamp == Map(t)[call[t].key]
       IN local' = [local EXCEPT ![t] =
                       [last_timestamp |-> last_timestamp,
                        time_diff |-> call[t].timestamp - last_timestamp]]
    /\ pc' = [pc EXCEPT ![t] = "cmp"]
    /\ UNCHANGED <<window, last_processed_timestamps, lock_owner, lock_count, log_owner, call,
                   ret, snap, accepted, in_force, seen, script, user_results, scenario>>

\* Bug variant: the boundary time_diff = window is throttled.
InWindowPassed_Strict(time_diff, w) == time_diff > w

\* Bug variant: an event older than the stored timestamp is never accepted.
InWindowPassed_NonNegative(time_diff, w) == time_diff >= w /\ time_diff >= 0

\* Bug variant: the distance to the stored timestamp is taken in either direction.
InWindowPassed_EitherDirection(time_diff, w) == time_diff >= w \/ 0 - time_diff >= w

\* if time_diff >= self._window:
InWindowPassed(time_diff, w) == time_diff >= w

\* Bug variant: a throttled event moves the key's timestamp too.
SP_Cmp_SlidesOnThrottle(t) ==
    /\ pc[t] = "cmp"
    /\ IF InWindowPassed(local[t].time_diff, Window(t))
       THEN /\ pc' = [pc EXCEPT ![t] = "store"]
            /\ ret' = ret
            /\ last_processed_timestamps' = last_processed_timestamps
       ELSE /\ pc' = [pc EXCEPT ![t] = "exit"]
            /\ ret' = [ret EXCEPT ![t] = PyBool(FALSE)]
            /\ last_processed_timestamps' =
                   [last_processed_timestamps EXCEPT ![EngineOf(t)] =
                       DictSet(@, call[t].key, call[t].timestamp)]
    /\ UNCHANGED <<window, lock_owner, lock_count, log_owner, call,
                   local, snap, accepted, in_force, seen, script, user_results, scenario>>

\* the comparison, and `return False` when it fails
SP_Cmp(t) ==
    /\ pc[t] = "cmp"
    /\ IF InWindowPassed(local[t].time_diff, Window(t))
       THEN /\ pc' = [pc EXCEPT ![t] = "store"]
            /\ ret' = ret
       ELSE /\ pc' = [pc EXCEPT ![t] = "exit"]
            /\ ret' = [ret EXCEPT ![t] = PyBool(FALSE)]
    /\ UNCHANGED <<window, last_processed_timestamps, lock_owner, lock_count, log_owner, call,
                   local, snap, accepted, in_force, seen, script, user_results, scenario>>

\* Bug variant: the largest timestamp seen is kept instead of the accepted one.
SP_Store_KeepsMax(t) ==
    /\ pc[t] = "store"
    /\ last_processed_timestamps' =
           [last_processed_timestamps EXCEPT ![EngineOf(t)] =
               DictSet(@, call[t].key,
                       IF call[t].timestamp > local[t].last_timestamp
                       THEN call[t].timestamp ELSE local[t].last_timestamp)]
    /\ pc' = [pc EXCEPT ![t] = "exit"]
    /\ ret' = [ret EXCEPT ![t] = PyBool(TRUE)]
    /\ UNCHANGED <<window, lock_owner, lock_count, log_owner, call, local, snap,
                   accepted, in_force, seen, script, user_results, scenario>>

\* self._last_processed_timestamps[key] = timestamp; return True
SP_Store(t) ==
    /\ pc[t] = "store"
    /\ last_processed_timestamps' =
           [last_processed_timestamps EXCEPT ![EngineOf(t)] =
               DictSet(@, call[t].key, call[t].timestamp)]
    /\ pc' = [pc EXCEPT ![t] = "exit"]
    /\ ret' = [ret EXCEPT ![t] = PyBool(TRUE)]
    /\ UNCHANGED <<window, lock_owner, lock_count, log_owner, call, local, snap,
                   accepted, in_force, seen, script, user_results, scenario>>

\* Bug variant: changing the window also forgets the stored timestamps.
UpdateWindow_ResetsKeys(t) ==
    /\ pc[t] = "uw"
    /\ window' = [window EXCEPT ![EngineOf(t)] = call[t].new_window]
    /\ last_processed_timestamps' =
           [last_processed_timestamps EXCEPT ![EngineOf(t)] = EmptyMap]
    /\ pc' = [pc EXCEPT ![t] = "log"]
    /\ ret' = [ret EXCEPT ![t] = None]
    /\ UNCHANGED <<lock_owner, lock_count, log_owner, call, local,
                   snap, accepted, in_force, seen, script, user_results, scenario>>

\* Bug variant: a window below 1 is clamped to 1.
UpdateWindow_Clamps(t) ==
    /\ pc[t] = "uw"
    /\ window' = [window EXCEPT ![EngineOf(t)] =
                     IF call[t].new_window < 1 THEN 1 ELSE call[t].new_window]
    /\ pc' = [pc EXCEPT ![t] = "log"]
    /\ ret' = [ret EXCEPT ![t] = None]
    /\ UNCHANGED <<last_processed_timestamps, lock_owner, lock_count, log_owner, call, local,
                   snap, accepted, in_force, seen, script, user_results, scenario>>

\* old_window = self._window; self._window = new_window; then logger.info(...)
UpdateWindow(t) ==
    /\ pc[t] = "uw"
    /\ window' = [window EXCEPT ![EngineOf(t)] = call[t].new_window]
    /\ pc' = [pc EXCEPT ![t] = "log"]
    /\ ret' = [ret EXCEPT ![t] = None]
    /\ UNCHANGED <<last_processed_timestamps, lock_owner, lock_count, log_owner, call, local,
                   snap, accepted, in_force, seen, script, user_results, scenario>>

\* Bug variant: the configured default is returned instead of the instance's window.
GetWindow_ReturnsDefault(t) ==
    /\ pc[t] = "gw"
    /\ pc' = [pc EXCEPT ![t] = "exit"]
    /\ ret' = [ret EXCEPT ![t] = PyInt(DEFAULT_WINDOW)]
    /\ UNCHANGED <<window, last_processed_timestamps, lock_owner, lock_count, log_owner, call,
                   local, snap, accepted, in_force, seen, script, user_results, scenario>>

\* return self._window
GetWindow(t) ==
    /\ pc[t] = "gw"
    /\ pc' = [pc EXCEPT ![t] = "exit"]
    /\ ret' = [ret EXCEPT ![t] = PyInt(Window(t))]
    /\ UNCHANGED <<window, last_processed_timestamps, lock_owner, lock_count, log_owner, call,
                   local, snap, accepted, in_force, seen, script, user_results, scenario>>

\* Bug variant: clear() leaves the dict as it is.
Clear_KeepsKeys(t) ==
    /\ pc[t] = "clr"
    /\ pc' = [pc EXCEPT ![t] = "log"]
    /\ ret' = [ret EXCEPT ![t] = None]
    /\ UNCHANGED <<window, last_processed_timestamps, lock_owner, lock_count, log_owner, call,
                   local, snap, accepted, in_force, seen, script, user_results, scenario>>

\* Bug variant: clear() also puts the window back to the configured default.
Clear_ResetsWindow(t) ==
    /\ pc[t] = "clr"
    /\ last_processed_timestamps' =
           [last_processed_timestamps EXCEPT ![EngineOf(t)] = EmptyMap]
    /\ window' = [window EXCEPT ![EngineOf(t)] = DEFAULT_WINDOW]
    /\ pc' = [pc EXCEPT ![t] = "log"]
    /\ ret' = [ret EXCEPT ![t] = None]
    /\ UNCHANGED <<lock_owner, lock_count, log_owner, call, local, snap,
                   accepted, in_force, seen, script, user_results, scenario>>

\* Bug variant: clear() reports the key count by calling self.get_key_count()
\* inside its own `with` block.
Clear_CallsGetKeyCount(t) ==
    /\ pc[t] = "clr"
    /\ last_processed_timestamps' =
           [last_processed_timestamps EXCEPT ![EngineOf(t)] = EmptyMap]
    /\ call' = [call EXCEPT ![t] = On(EngineOf(t), PlainCall("get_key_count"))]
    /\ pc' = [pc EXCEPT ![t] = "lock"]
    /\ UNCHANGED <<window, lock_owner, lock_count, log_owner, local, ret, snap,
                   accepted, in_force, seen, script, user_results, scenario>>

\* self._last_processed_timestamps.clear(); then logger.info(...)
Clear(t) ==
    /\ pc[t] = "clr"
    /\ last_processed_timestamps' =
           [last_processed_timestamps EXCEPT ![EngineOf(t)] = EmptyMap]
    /\ pc' = [pc EXCEPT ![t] = "log"]
    /\ ret' = [ret EXCEPT ![t] = None]
    /\ UNCHANGED <<window, lock_owner, lock_count, log_owner, call, local, snap,
                   accepted, in_force, seen, script, user_results, scenario>>

\* Bug variant: only the keys with a truthy (non-zero) timestamp are counted.
GetKeyCount_Truthy(t) ==
    /\ pc[t] = "gkc"
    /\ pc' = [pc EXCEPT ![t] = "exit"]
    /\ ret' = [ret EXCEPT ![t] = PyInt(Cardinality({k \in DOMAIN Map(t) : Map(t)[k] # 0}))]
    /\ UNCHANGED <<window, last_processed_timestamps, lock_owner, lock_count, log_owner, call,
                   local, snap, accepted, in_force, seen, script, user_results, scenario>>

\* return len(self._last_processed_timestamps)
GetKeyCount(t) ==
    /\ pc[t] = "gkc"
    /\ pc' = [pc EXCEPT ![t] = "exit"]
    /\ ret' = [ret EXCEPT ![t] = PyInt(Cardinality(DOMAIN Map(t)))]
    /\ UNCHANGED <<window, last_processed_timestamps, lock_owner, lock_count, log_owner, call,
                   local, snap, accepted, in_force, seen, script, user_results, scenario>>

\* ---------------------------------------------------------------- the logger
\* logger = get_module_logger("throttler"): one logger of level INFO with one
\* StreamHandler, shared by every instance. logger.info(...) in update_window
\* and clear hands the record to the handler, which takes its own lock around
\* the write (logging.Handler.handle); logger.debug(...) in should_process is
\* below the logger's level and stops before the handler.
LogAcquire(t) ==
    /\ pc[t] = "log"
    /\ log_owner = NoThread
    /\ log_owner' = t
    /\ pc' = [pc EXCEPT ![t] = "emit"]
    /\ UNCHANGED <<window, last_processed_timestamps, lock_owner, lock_count, call,
                   local, ret, snap, accepted, in_force, seen, script, user_results, scenario>>

\* the record is written and the handler's lock released
LogEmit(t) ==
    /\ pc[t] = "emit"
    /\ log_owner' = NoThread
    /\ pc' = [pc EXCEPT ![t] = "exit"]
    /\ UNCHANGED <<window, last_processed_timestamps, lock_owner, lock_count, call,
                   local, ret, snap, accepted, in_force, seen, script, user_results, scenario>>

\* ---------------------------------------------------------------- returning
\* What an observer of the returned values records when call c returns r.
AcceptedAfter(c, r) ==
    IF c.op = "should_process" /\ r = PyBool(TRUE)
    THEN DictSet(accepted[c.engine], c.key, c.timestamp)
    ELSE IF c.op = "clear" THEN EmptyMap ELSE accepted[c.engine]

SeenAfter(c) ==
    IF c.op = "should_process" THEN seen[c.engine] \cup {c.key}
    ELSE IF c.op = "clear" THEN {} ELSE seen[c.engine]

InForceAfter(c) == IF c.op = "update_window" THEN c.new_window ELSE in_force[c.engine]

\* Bug variant: the `return False` path leaves the block without releasing.
Unlock_NotOnThrottle(t) ==
    IF call[t].op = "should_process" /\ ret[t] = PyBool(FALSE)
    THEN /\ lock_count' = lock_count
         /\ lock_owner' = lock_owner
    ELSE /\ lock_count' = [lock_count EXCEPT ![EngineOf(t)] = @ - 1]
         /\ lock_owner' = [lock_owner EXCEPT ![EngineOf(t)] =
                              IF lock_count[EngineOf(t)] = 1 THEN NoThread ELSE @]

\* threading.RLock.release, on every way out of the `with` block
Unlock(t) ==
    /\ lock_count' = [lock_count EXCEPT ![EngineOf(t)] = @ - 1]
    /\ lock_owner' = [lock_owner EXCEPT ![EngineOf(t)] =
                         IF lock_count[EngineOf(t)] = 1 THEN NoThread ELSE @]

\* Leaving the `with` block (__exit__): the RLock is released and the method
\* returns ret[t] to its caller.
Return(t) ==
    /\ pc[t] = "exit"
    /\ Unlock(t)
    /\ accepted' = [accepted EXCEPT ![EngineOf(t)] = AcceptedAfter(call[t], ret[t])]
    /\ in_force' = [in_force EXCEPT ![EngineOf(t)] = InForceAfter(call[t])]
    /\ seen' = [seen EXCEPT ![EngineOf(t)] = SeenAfter(call[t])]
    /\ pc' = [pc EXCEPT ![t] = "idle"]
    /\ call' = [call EXCEPT ![t] = NoCall]
    /\ local' = [local EXCEPT ![t] = NoLocal]
    /\ ret' = [ret EXCEPT ![t] = None]
    /\ snap' = [snap EXCEPT ![t] = NoSnap]
    /\ UNCHANGED <<window, last_processed_timestamps, log_owner>>

\* A caller that does not keep the result.
Exit(t) ==
    /\ Return(t)
    /\ UNCHANGED <<script, user_results, scenario>>

Step(t) ==
    \/ Acquire(t)
    \/ SP_Check(t)
    \/ SP_New(t)
    \/ SP_Read(t)
    \/ SP_Cmp(t)
    \/ SP_Store(t)
    \/ UpdateWindow(t)
    \/ GetWindow(t)
    \/ Clear(t)
    \/ GetKeyCount(t)
    \/ LogAcquire(t)
    \/ LogEmit(t)
    \/ Exit(t)

Next == \E t \in Threads : Call(t) \/ Step(t)

Spec == Init /\ [][Next]_vars

\* ---------------------------------------------------------------- scripted callers
\* Programs of the repository that drive one engine: the worker threads of
\* test_thread_safety, test_update_window and dynamic_window_example, and
\* workers like those of test_thread_safety with arbitrary short scripts.
MaxEvents == 2

Workers == {"t1", "t2", "t3"}
\* f"user{user_id}"
WorkerKey(t) == CASE t = "t1" -> "user1" [] t = "t2" -> "user2" [] t = "t3" -> "user3"
WorkerTimestamps == {0, 1, 3}
WorkerWindows == {1, 2}

RECURSIVE SeqsUpTo(_, _)
SeqsUpTo(S, n) ==
    IF n = 0 THEN {<<>>}
    ELSE LET shorter == SeqsUpTo(S, n - 1)
         IN shorter \cup {Append(q, x) : q \in {r \in shorter : Len(r) = n - 1}, x \in S}

\* worker(user_id, timestamps): one should_process call per (ts, event_id)
WorkerScript(t, tss) ==
    [i \in 1 .. Len(tss) |-> ShouldProcessCall(tss[i], "e1", WorkerKey(t))]

\* user1_data, user2_data, user3_data of test_thread_safety
ThreadSafetyData ==
    [t1 |-> <<ShouldProcessCall(1, "e1", "user1"), ShouldProcessCall(5, "e4", "user1"),
              ShouldProcessCall(12, "e7", "user1"), ShouldProcessCall(15, "e10", "user1")>>,
     t2 |-> <<ShouldProcessCall(2, "e2", "user2"), ShouldProcessCall(7, "e5", "user2"),
              ShouldProcessCall(13, "e8", "user2"), ShouldProcessCall(16, "e11", "user2")>>,
     t3 |-> <<ShouldProcessCall(3, "e3", "user3"), ShouldProcessCall(9, "e6", "user3"),
              ShouldProcessCall(14, "e9", "user3"), ShouldProcessCall(17, "e12", "user3")>>]

\* the calls of test_update_window
UpdateWindowTest ==
    <<ShouldProcessCall(1, "e1", "userA"), UpdateWindowCall(20),
      ShouldProcessCall(15, "e2", "userA"), ShouldProcessCall(22, "e3", "userA")>>

\* the calls of dynamic_window_example
DynamicWindowExample ==
    <<PlainCall("get_window"), ShouldProcessCall(1, "e1", "userX"),
      ShouldProcessCall(5, "e2", "userX"), UpdateWindowCall(3), PlainCall("get_window"),
      ShouldProcessCall(5, "e3", "userX"), ShouldProcessCall(7, "e4", "userX"),
      ShouldProcessCall(9, "e5", "userX")>>

\* A fresh engine of window w with all workers outside it.
FreshEngine(w) ==
    /\ Constructed({Main}, Workers)
    /\ window[Main] = w

InitTest ==
    \/ /\ scenario = "test_thread_safety"
       /\ FreshEngine(DEFAULT_WINDOW)
       /\ script = ThreadSafetyData
    \/ /\ scenario = "test_update_window"
       /\ FreshEngine(DEFAULT_WINDOW)
       /\ script = [t1 |-> UpdateWindowTest, t2 |-> <<>>, t3 |-> <<>>]
    \/ /\ scenario = "dynamic_window_example"
       /\ FreshEngine(DEFAULT_WINDOW)
       /\ script = [t1 |-> DynamicWindowExample, t2 |-> <<>>, t3 |-> <<>>]
    \/ /\ scenario = "workers"
       /\ \E w \in WorkerWindows : FreshEngine(w)
       /\ \E s1, s2 \in SeqsUpTo(WorkerTimestamps, MaxEvents) :
              script = [t1 |-> WorkerScript("t1", s1), t2 |-> WorkerScript("t2", s2),
                        t3 |-> <<>>]

\* The worker makes its next call.
WorkerCall(t) ==
    /\ pc[t] = "idle"
    /\ Len(user_results[t]) < Len(script[t])
    /\ call' = [call EXCEPT ![t] = script[t][Len(user_results[t]) + 1]]
    /\ pc' = [pc EXCEPT ![t] = "lock"]
    /\ UNCHANGED <<window, last_processed_timestamps, lock_owner, lock_count, log_owner,
                   local, ret, snap, accepted, in_force, seen, script, user_results, scenario>>

\* The call returns and the worker records its result: results.append(...)
WorkerReturn(t) ==
    /\ Return(t)
    /\ user_results' = [user_results EXCEPT ![t] = Append(@, ret[t])]
    /\ UNCHANGED <<script, scenario>>

NextTest ==
    \E t \in Workers :
        \/ WorkerCall(t)
        \/ Acquire(t)
        \/ SP_Check(t)
        \/ SP_New(t)
        \/ SP_Read(t)
        \/ SP_Cmp(t)
        \/ SP_Store(t)
        \/ UpdateWindow(t)
        \/ GetWindow(t)
        \/ LogAcquire(t)
        \/ LogEmit(t)
        \/ WorkerReturn(t)

SpecTest == InitTest /\ [][NextTest]_vars

\* ---------------------------------------------------------------- two instances
\* a = EventThrottler(w); b = EventThrottler(w): two engines built alike in one
\* process. Thread t1 runs a sequence of calls on a and thread t2 runs the
\* same sequence on b, each passing any event_id it likes to should_process.
Instances == {"a", "b"}
InstanceOf == [t1 |-> "a", t2 |-> "b"]

PairCalls ==
    {ShouldProcessCall(ts, "e1", "userA") : ts \in WorkerTimestamps}
    \cup {ShouldProcessCall(0, "e1", "")}
    \cup {UpdateWindowCall(w) : w \in WorkerWindows}
    \cup {PlainCall("get_window"), PlainCall("clear"), PlainCall("get_key_count")}

InitPair ==
    /\ Constructed(Instances, Threads)
    /\ window["a"] \in WorkerWindows
    /\ window["b"] = window["a"]
    /\ \E s \in SeqsUpTo(PairCalls, MaxEvents) :
           script = [t \in Threads |-> [i \in 1 .. Len(s) |-> On(InstanceOf[t], s[i])]]
    /\ scenario = "pair"

WithEventId(c, id) == IF c.op = "should_process" THEN [c EXCEPT !.event_id = id] ELSE c

\* the next call of the sequence, with an event_id of the caller's choice
PairCall(t) ==
    /\ pc[t] = "idle"
    /\ Len(user_results[t]) < Len(script[t])
    /\ \E id \in EventIds :
           call' = [call EXCEPT ![t] = WithEventId(script[t][Len(user_results[t]) + 1], id)]
    /\ pc' = [pc EXCEPT ![t] = "lock"]
    /\ UNCHANGED <<window, last_processed_timestamps, lock_owner, lock_count, log_owner,
                   local, ret, snap, accepted, in_force, seen, script, user_results, scenario>>

NextPair ==
    \E t \in Threads :
        \/ PairCall(t)
        \/ Acquire(t)
        \/ SP_Check(t)
        \/ SP_New(t)
        \/ SP_Read(t)
        \/ SP_Cmp(t)
        \/ SP_Store(t)
        \/ UpdateWindow(t)
        \/ GetWindow(t)
        \/ Clear(t)
        \/ GetKeyCount(t)
        \/ LogAcquire(t)
        \/ LogEmit(t)
        \/ WorkerReturn(t)

SpecPair == InitPair /\ [][NextPair]_vars

\* ---------------------------------------------------------------- a race on one key
\* One engine with a positive window. Thread t1 may first make one
\* should_process call on its own; then t1 and one or both of the other
\* threads each call should_process once with the same key and timestamp.
RacePreludes ==
    {<<>>} \cup {<<ShouldProcessCall(ts, "e1", k)>> : ts \in Timestamps, k \in Keys}

InitRace ==
    /\ Constructed({Main}, Workers)
    /\ window[Main] \in 1 .. MaxWindow
    /\ \E before \in RacePreludes, ts \in Timestamps, k \in Keys,
          others \in (SUBSET (Workers \ {"t1"})) \ {{}} :
           script = [t \in Workers |->
                        IF t = "t1" THEN Append(before, ShouldProcessCall(ts, "e1", k))
                        ELSE IF t \in others THEN <<ShouldProcessCall(ts, "e1", k)>>
                        ELSE <<>>]
    /\ scenario = "race"

\* calls that thread t has still to make
Remaining(t) == Len(script[t]) - Len(user_results[t])

\* A thread makes its next call; the racing calls (the last of each thread)
\* start only when what came before them has returned.
RaceCall(t) ==
    /\ pc[t] = "idle"
    /\ Remaining(t) >= 1
    /\ \A u \in Workers \ {t} : Remaining(u) <= 1
    /\ call' = [call EXCEPT ![t] = script[t][Len(user_results[t]) + 1]]
    /\ pc' = [pc EXCEPT ![t] = "lock"]
    /\ UNCHANGED <<window, last_processed_timestamps, lock_owner, lock_count, log_owner,
                   local, ret, snap, accepted, in_force, seen, script, user_results, scenario>>

NextRace ==
    \E t \in Workers :
        \/ RaceCall(t)
        \/ Acquire(t)
        \/ SP_Check(t)
        \/ SP_New(t)
        \/ SP_Read(t)
        \/ SP_Cmp(t)
        \/ SP_Store(t)
        \/ WorkerReturn(t)

SpecRace == InitRace /\ [][NextRace]_vars

\* ---------------------------------------------------------------- fair scheduling
\* Two threads that call one engine for ever, scheduled fairly: a thread
\* that can take a step of its block, or leave it, eventually does (weak
\* fairness), and a thread that finds the engine's lock or the handler's lock
\* free again and again eventually gets it (strong fairness). The callers
\* themselves are free to stop calling.
LiveCalls ==
    {ShouldProcessCall(ts, "e1", "userA") : ts \in {0, 1}}
    \cup {UpdateWindowCall(w) : w \in {0, 1}}
    \cup {PlainCall("get_window"), PlainCall("clear"), PlainCall("get_key_count")}

InitLive ==
    /\ Constructed({Main}, Threads)
    /\ window[Main] = 1
    /\ script = [t \in Threads |-> <<>>]
    /\ scenario = "live"

LiveCall(t) == CallFrom(t, LiveCalls)

\* the statements between taking the lock and having returned
InsideBlock(t) ==
    \/ SP_Check(t)
    \/ SP_New(t)
    \/ SP_Read(t)
    \/ SP_Cmp(t)
    \/ SP_Store(t)
    \/ UpdateWindow(t)
    \/ GetWindow(t)
    \/ Clear(t)
    \/ GetKeyCount(t)
    \/ LogEmit(t)
    \/ Exit(t)

NextLive == \E t \in Threads : LiveCall(t) \/ Acquire(t) \/ LogAcquire(t) \/ InsideBlock(t)

\* (every step moves the pc of its thread, so a step that changes pc is any step)
FairScheduling ==
    \A t \in Threads :
        /\ WF_pc(InsideBlock(t))
        /\ SF_pc(Acquire(t))
        /\ SF_pc(LogAcquire(t))

SpecLive == InitLive /\ [][NextLive]_vars /\ FairScheduling

\* ================================================================ claims
\* A call is "leaving" when its block has run, its result is in ret[t] and
\* it still holds the lock: snap[t] is the engine as the call found it.
AllThreads == DOMAIN pc
Leaving(t, op) == pc[t] = "exit" /\ call[t].op = op

\* C1: for a key stored at `last` under window w, should_process(ts) is
\* throttled when last <= ts < last + w and accepted when ts >= last + w.
C1_WindowExclusion ==
    \A t \in AllThreads :
        (Leaving(t, "should_process") /\ call[t].key \in DOMAIN snap[t].map) =>
            LET last == snap[t].map[call[t].key]
                w == snap[t].window
                ts == call[t].timestamp
            IN /\ (last <= ts /\ ts < last + w) => ret[t] = PyBool(FALSE)
               /\ (ts >= last + w) => ret[t] = PyBool(TRUE)

\* an event exactly on the boundary last + w of a positive window was accepted
C1_Witness ==
    \E t \in AllThreads :
        /\ Leaving(t, "should_process")
        /\ call[t].key \in DOMAIN snap[t].map
        /\ snap[t].window > 0
        /\ call[t].timestamp = snap[t].map[call[t].key] + snap[t].window
        /\ ret[t] = PyBool(TRUE)

\* C2: the first should_process call for a key with no entry returns True and
\* stores its timestamp, whatever the timestamp, the window and the key.
C2_FirstSeenAccepted ==
    \A t \in AllThreads :
        (Leaving(t, "should_process") /\ call[t].key \notin DOMAIN snap[t].map) =>
            /\ ret[t] = PyBool(TRUE)
            /\ call[t].key \in DOMAIN Map(t)
            /\ Map(t)[call[t].key] = call[t].timestamp

\* the empty key was first seen with a negative timestamp
C2_Witness ==
    \E t \in AllThreads :
        /\ Leaving(t, "should_process")
        /\ call[t].key \notin DOMAIN snap[t].map
        /\ call[t].key = ""
        /\ call[t].timestamp < 0
        /\ ret[t] = PyBool(TRUE)

\* C3: a should_process call that returns False leaves the map and the
\* window exactly as it found them.
C3_ThrottledIsInert ==
    \A t \in AllThreads :
        (Leaving(t, "should_process") /\ ret[t] = PyBool(FALSE)) =>
            /\ Map(t) = snap[t].map
            /\ Window(t) = snap[t].window

\* an event later than the stored timestamp was throttled
C3_Witness ==
    \E t \in AllThreads :
        /\ Leaving(t, "should_process")
        /\ ret[t] = PyBool(FALSE)
        /\ call[t].timestamp > snap[t].map[call[t].key]

\* C4: an event accepted for a key whose previous accepted event (since the
\* last clear) had timestamp p has a timestamp of at least p plus the window
\* in force when it was decided.
C4_AcceptedGap ==
    \A t \in AllThreads :
        (Leaving(t, "should_process") /\ ret[t] = PyBool(TRUE) /\ call[t].key \in DOMAIN accepted[EngineOf(t)]) =>
            call[t].timestamp - accepted[EngineOf(t)][call[t].key] >= snap[t].window

\* a second event of a key was accepted under a positive window
C4_Witness ==
    \E t \in AllThreads :
        /\ Leaving(t, "should_process")
        /\ ret[t] = PyBool(TRUE)
        /\ call[t].key \in DOMAIN accepted[EngineOf(t)]
        /\ snap[t].window > 0

\* C5: update_window(w) sets the window to w and changes no stored timestamp,
\* and a should_process call for a tracked key compares timestamp minus the
\* stored timestamp against the window of the last update_window that returned.
C5_WindowUpdateForwardOnly ==
    \A t \in AllThreads :
        /\ Leaving(t, "update_window") =>
               /\ Map(t) = snap[t].map
               /\ Window(t) = call[t].new_window
        /\ (Leaving(t, "should_process") /\ call[t].key \in DOMAIN snap[t].map) =>
               ret[t] = PyBool(call[t].timestamp - snap[t].map[call[t].key] >= in_force[EngineOf(t)])

\* a window change went through while a timestamp was stored
C5_Witness ==
    \E t \in AllThreads :
        /\ Leaving(t, "update_window")
        /\ snap[t].map # EmptyMap
        /\ call[t].new_window # snap[t].window

\* C6: a should_process call for a key leaves the entry (and absence) of every
\* other key as it was, and its outcome is fixed by its own key's last
\* accepted timestamp and the window alone.
C6_KeyIndependence ==
    \A t \in AllThreads :
        Leaving(t, "should_process") =>
            /\ \A k \in (DOMAIN snap[t].map \cup DOMAIN Map(t)) \ {call[t].key} :
                   /\ k \in DOMAIN snap[t].map
                   /\ k \in DOMAIN Map(t)
                   /\ Map(t)[k] = snap[t].map[k]
            /\ ret[t] = PyBool(\/ call[t].key \notin DOMAIN accepted[EngineOf(t)]
                              \/ call[t].timestamp - accepted[EngineOf(t)][call[t].key] >= in_force[EngineOf(t)])

\* a key was accepted while another key held a different timestamp
C6_Witness ==
    \E t \in AllThreads :
        /\ Leaving(t, "should_process")
        /\ ret[t] = PyBool(TRUE)
        /\ \E k \in DOMAIN snap[t].map :
               k # call[t].key /\ snap[t].map[k] # call[t].timestamp

\* C7: clear() leaves no key tracked; with nothing accepted since the last
\* clear get_key_count() is 0, and the first should_process call for a key
\* since the last clear returns True.
C7_ClearResets ==
    \A t \in AllThreads :
        /\ Leaving(t, "clear") => Cardinality(DOMAIN Map(t)) = 0
        /\ (Leaving(t, "get_key_count") /\ seen[EngineOf(t)] = {}) => ret[t] = PyInt(0)
        /\ (Leaving(t, "should_process") /\ call[t].key \notin seen[EngineOf(t)]) => ret[t] = PyBool(TRUE)

\* clear() has wiped a key, and an event inside that key's old window waits
C7_Witness ==
    \E t, u \in AllThreads :
        /\ Leaving(t, "clear")
        /\ pc[u] = "lock" /\ call[u].op = "should_process"
        /\ call[u].key \in DOMAIN snap[t].map
        /\ snap[t].window > 0
        /\ call[u].timestamp >= snap[t].map[call[u].key]
        /\ call[u].timestamp < snap[t].map[call[u].key] + snap[t].window

\* C8: get_key_count() is the number of distinct keys passed to
\* should_process since construction or the last clear; should_process adds
\* one for an untracked key and nothing otherwise; only clear() lowers it.
C8_KeyCount ==
    \A t \in AllThreads :
        /\ Leaving(t, "get_key_count") => ret[t] = PyInt(Cardinality(seen[EngineOf(t)]))
        /\ Leaving(t, "should_process") =>
               Cardinality(DOMAIN Map(t)) =
                   Cardinality(DOMAIN snap[t].map)
                   + (IF call[t].key \in DOMAIN snap[t].map THEN 0 ELSE 1)
        /\ (pc[t] = "exit" /\ call[t].op # "clear") =>
               Cardinality(DOMAIN Map(t)) >= Cardinality(DOMAIN snap[t].map)

\* every key is tracked, one of them at timestamp 0, and the count says so
C8_Witness ==
    \E t \in AllThreads :
        /\ Leaving(t, "get_key_count")
        /\ ret[t] = PyInt(Cardinality(Keys))
        /\ \E k \in DOMAIN Map(t) : Map(t)[k] = 0

\* ---------------------------------------------------------------- sequential reference
\* The five methods run one at a time, each in one step, on a map m and a
\* window w: the result returned and the map and window left behind.
Sequential(c, m, w) ==
    CASE c.op = "should_process" ->
             IF c.key \notin DOMAIN m \/ c.timestamp - m[c.key] >= w
             THEN [ret |-> PyBool(TRUE), window |-> w,
                   map |-> [k \in DOMAIN m \cup {c.key} |->
                               IF k = c.key THEN c.timestamp ELSE m[k]]]
             ELSE [ret |-> PyBool(FALSE), window |-> w, map |-> m]
      [] c.op = "update_window" -> [ret |-> None, window |-> c.new_window, map |-> m]
      [] c.op = "get_window" -> [ret |-> PyInt(w), window |-> w, map |-> m]
      [] c.op = "clear" -> [ret |-> None, window |-> w, map |-> EmptyMap]
      [] c.op = "get_key_count" -> [ret |-> PyInt(Cardinality(DOMAIN m)), window |-> w, map |-> m]

InBlock(t) == pc[t] \notin {"idle", "lock"}
\* past the statements of its block that write the map, the window or the result
HasWritten(t) == pc[t] \in {"log", "emit", "exit"}

\* C9: calls take effect one at a time: no two threads are inside a `with`
\* block together, a call inside its block sees the map and window it found
\* when it took the lock until it writes them itself, and when it leaves, its
\* result and the map and window are those of the same call run alone, in
\* one step, on the state it found.
C9_Linearizable ==
    /\ \A t, u \in AllThreads :
           (InBlock(t) /\ InBlock(u) /\ EngineOf(t) = EngineOf(u)) => t = u
    /\ \A t \in AllThreads :
           /\ (InBlock(t) /\ ~HasWritten(t)) =>
                  /\ Map(t) = snap[t].map
                  /\ Window(t) = snap[t].window
           /\ HasWritten(t) =>
                  [ret |-> ret[t], window |-> Window(t), map |-> Map(t)]
                      = Sequential(call[t], snap[t].map, snap[t].window)

\* a call has changed the map while another thread waits for the lock with a
\* call on the same key
C9_Witness ==
    \E t, u \in AllThreads :
        /\ Leaving(t, "should_process") /\ ret[t] = PyBool(TRUE)
        /\ call[t].key \in DOMAIN snap[t].map
        /\ pc[u] = "lock" /\ call[u].op = "should_process"
        /\ call[u].key = call[t].key

\* The outcomes of submitting the timestamps tss of one key, in order, to an
\* engine of window w on which the key is tracked at `last` iff `has`.
RECURSIVE Alone(_, _, _, _)
Alone(tss, w, has, last) ==
    IF tss = <<>> THEN <<>>
    ELSE LET ts == Head(tss)
             ok == (~has) \/ (ts - last >= w)
         IN <<PyBool(ok)>> \o Alone(Tail(tss), w, TRUE, IF ok THEN ts ELSE last)

ScriptTimestamps(t) == [i \in 1 .. Len(script[t]) |-> script[t][i].timestamp]
Count(q, v) == Cardinality({i \in 1 .. Len(q) : q[i] = v})

\* C10: with workers that each submit the events of their own key to one
\* engine of fixed window, the outcomes each worker has collected are, under
\* every interleaving, those of its events submitted alone to a fresh engine;
\* with the data of test_thread_safety every worker ends with two True and
\* two False.
C10_WorkersUnaffected ==
    scenario \in {"workers", "test_thread_safety"} =>
        \A t \in AllThreads :
            /\ user_results[t] =
                   SubSeq(Alone(ScriptTimestamps(t), window[Main], FALSE, 0),
                          1, Len(user_results[t]))
            /\ (scenario = "test_thread_safety" /\ Len(user_results[t]) = Len(script[t])) =>
                   Count(user_results[t], PyBool(TRUE)) = 2 /\ Count(user_results[t], PyBool(FALSE)) = 2

\* the three workers of test_thread_safety have finished
C10_Witness ==
    /\ scenario = "test_thread_safety"
    /\ \A t \in AllThreads : Len(user_results[t]) = 4

\* C12: get_window() returns the window of the last update_window that
\* returned on its instance, or the constructor's window if there was none.
C12_GetWindowCurrent ==
    \A t \in AllThreads :
        Leaving(t, "get_window") => ret[t] = PyInt(in_force[EngineOf(t)])

\* get_window() has its result while an update_window with another value waits
C12_Witness ==
    \E t, u \in AllThreads :
        /\ Leaving(t, "get_window")
        /\ pc[u] = "lock" /\ call[u].op = "update_window"
        /\ EngineOf(u) = EngineOf(t)
        /\ PyInt(call[u].new_window) # ret[t]

C14_NonPositiveWindow ==
    \A t \in AllThreads :
        /\ (/\ Leaving(t, "should_process")
            /\ call[t].key \in DOMAIN snap[t].map
            /\ snap[t].window <= 0
            /\ call[t].timestamp >= snap[t].map[call[t].key]) =>
               ret[t] = PyBool(TRUE) /\ Map(t)[call[t].key] = call[t].timestamp
        /\ Leaving(t, "update_window") => Window(t) = call[t].new_window

\* an event with the stored timestamp itself was decided under a negative window
C14_Witness ==
    \E t \in AllThreads :
        /\ Leaving(t, "should_process")
        /\ call[t].key \in DOMAIN snap[t].map
        /\ snap[t].window < 0
        /\ call[t].timestamp = snap[t].map[call[t].key]
        /\ ret[t] = PyBool(TRUE)

\* C16: on every instance the map holds, for exactly the keys that have an
\* accepted call since construction or the last clear, the timestamp of the
\* most recent such call; while a call that has written is on its way out,
\* the map is already what the record of returned calls becomes when it returns.
C16_StoredIsLastAccepted ==
    \A e \in DOMAIN last_processed_timestamps :
        LET writers == {t \in AllThreads : HasWritten(t) /\ EngineOf(t) = e}
        IN IF writers = {}
           THEN last_processed_timestamps[e] = accepted[e]
           ELSE \A t \in writers :
                    last_processed_timestamps[e] = AcceptedAfter(call[t], ret[t])

\* a throttled event carries a larger timestamp than the one the map keeps
C16_Witness ==
    \E t \in AllThreads :
        /\ Leaving(t, "should_process")
        /\ ret[t] = PyBool(FALSE)
        /\ Map(t) = accepted[EngineOf(t)]
        /\ call[t].timestamp > Map(t)[call[t].key]

\* C17: in every step, the window of an instance changes only in the write of
\* an update_window call, and its map changes only in the write of a
\* should_process call that returns True, which touches its own key alone,
\* or in a clear().
C17_Frame ==
    [][\A e \in DOMAIN window :
          /\ window'[e] # window[e] =>
                 \E t \in AllThreads :
                     /\ EngineOf(t) = e /\ call[t].op = "update_window"
                     /\ pc[t] = "uw" /\ pc'[t] # "uw"
          /\ last_processed_timestamps'[e] # last_processed_timestamps[e] =>
                 \E t \in AllThreads :
                     /\ EngineOf(t) = e /\ pc'[t] # pc[t]
                     /\ \/ call[t].op = "clear"
                        \/ /\ call[t].op = "should_process"
                           /\ ret'[t] = PyBool(TRUE)
                           /\ \A k \in (DOMAIN last_processed_timestamps[e]
                                        \cup DOMAIN last_processed_timestamps'[e]) \ {call[t].key} :
                                  /\ k \in DOMAIN last_processed_timestamps[e]
                                  /\ k \in DOMAIN last_processed_timestamps'[e]
                                  /\ last_processed_timestamps'[e][k] =
                                         last_processed_timestamps[e][k]
      ]_vars

\* clear() has emptied a map with keys and the window is as it was
C17_Witness ==
    \E t \in AllThreads :
        /\ Leaving(t, "clear")
        /\ snap[t].map # EmptyMap
        /\ Map(t) = EmptyMap
        /\ Window(t) = snap[t].window
        /\ Window(t) # DEFAULT_WINDOW

\* C18: an event of a tracked key that is older than the stored timestamp and
\* still has timestamp - stored >= window is accepted and overwrites the
\* stored timestamp with its smaller one; and every decision on a tracked key
\* is measured from the last accepted timestamp.
C18_OutOfOrderOverwrite ==
    \A t \in AllThreads :
        /\ (/\ Leaving(t, "should_process")
            /\ call[t].key \in DOMAIN snap[t].map
            /\ call[t].timestamp < snap[t].map[call[t].key]
            /\ call[t].timestamp - snap[t].map[call[t].key] >= snap[t].window) =>
               ret[t] = PyBool(TRUE) /\ Map(t)[call[t].key] = call[t].timestamp
        /\ (Leaving(t, "should_process") /\ call[t].key \in DOMAIN accepted[EngineOf(t)]) =>
               local[t].last_timestamp = accepted[EngineOf(t)][call[t].key]

\* an event older than the stored timestamp was accepted
C18_Witness ==
    \E t \in AllThreads :
        /\ Leaving(t, "should_process")
        /\ call[t].key \in DOMAIN snap[t].map
        /\ call[t].timestamp < snap[t].map[call[t].key]
        /\ ret[t] = PyBool(TRUE)
        /\ Map(t)[call[t].key] < snap[t].map[call[t].key]

\* acquire of a plain, non-reentrant mutex: only when it is free
PlainMutexCanAcquire(t) == lock_owner[EngineOf(t)] = NoThread

\* C20: no thread asks for a lock it already holds, so the RLock's count is
\* never above 1, and wherever a thread waits for the lock the RLock lets it
\* in exactly when a plain mutex would: the two engines take the same steps.
C20_PlainMutexSuffices ==
    /\ \A e \in DOMAIN lock_count :
           /\ lock_count[e] <= 1
           /\ lock_count[e] = 0 <=> lock_owner[e] = NoThread
    /\ \A t \in AllThreads :
           /\ pc[t] = "lock" =>
                  /\ lock_owner[EngineOf(t)] # t
                  /\ CanAcquire(t) <=> PlainMutexCanAcquire(t)
           /\ InBlock(t) => lock_owner[EngineOf(t)] = t

\* a thread holds the lock once while another waits for it
C20_Witness ==
    \E t, u \in AllThreads :
        /\ InBlock(t) /\ lock_count[EngineOf(t)] = 1
        /\ pc[u] = "lock" /\ EngineOf(u) = EngineOf(t)
        /\ ~CanAcquire(u)

C11_EventIdIgnored ==
    LET r1 == user_results["t1"]
        r2 == user_results["t2"]
    IN /\ \A i \in 1 .. Len(r1) : i <= Len(r2) => r1[i] = r2[i]
       /\ (Len(r1) = Len(r2) /\ pc["t1"] = "idle" /\ pc["t2"] = "idle") =>
              /\ last_processed_timestamps["a"] = last_processed_timestamps["b"]
              /\ window["a"] = window["b"]

\* both engines are answering the same call of the sequence, a throttled one,
\* made with different event ids, after equal earlier results
C11_Witness ==
    /\ Leaving("t1", "should_process") /\ Leaving("t2", "should_process")
    /\ Len(user_results["t1"]) = Len(user_results["t2"])
    /\ Len(user_results["t1"]) >= 1
    /\ call["t1"].event_id # call["t2"].event_id
    /\ ret["t1"] = PyBool(FALSE) /\ ret["t2"] = PyBool(FALSE)
    /\ Map("t1") = Map("t2")

\* a thread waits for a lock that a thread of the other instance holds
BlockedAcross(t, u) ==
    /\ pc[t] \in {"lock", "log"}
    /\ InBlock(u)
    /\ EngineOf(t) # EngineOf(u)
    /\ \/ pc[t] = "lock" /\ lock_owner[EngineOf(t)] = u
       \/ pc[t] = "log" /\ log_owner = u

\* a step taken for an operation on instance e leaves the other instance's
\* map and window alone
C15_NoSharedData ==
    \A t \in Threads :
        pc'[t] # pc[t] =>
            \A e \in Instances \ {InstanceOf[t]} :
                /\ last_processed_timestamps'[e] = last_processed_timestamps[e]
                /\ window'[e] = window[e]

\* C15: two instances in one process are independent: no operation on one
\* changes the map or the window of the other, and a thread running an
\* operation on one is never blocked by a thread that holds or waits for the
\* lock of the other.
C15_InstancesIndependent ==
    /\ [][C15_NoSharedData]_vars
    /\ [](\A t, u \in Threads : ~BlockedAcross(t, u))

\* the step that runs self._last_processed_timestamps.clear() on instance e
Clears(e) ==
    \E t \in AllThreads : pc[t] = "clr" /\ EngineOf(t) = e /\ pc'[t] # "clr"

\* C22: while the window is not negative, a should_process whose timestamp is
\* earlier than the key's stored timestamp is throttled and leaves the map
\* as it was, so no step other than clear() lowers or drops a stored timestamp.
C22_StoredNeverDecreases ==
    /\ [](\A t \in AllThreads :
              (/\ Leaving(t, "should_process")
               /\ call[t].key \in DOMAIN snap[t].map
               /\ call[t].timestamp < snap[t].map[call[t].key]
               /\ snap[t].window >= 0) =>
                  ret[t] = PyBool(FALSE) /\ Map(t) = snap[t].map)
    /\ [][\A e \in DOMAIN window :
              (window[e] >= 0 /\ ~Clears(e)) =>
                  \A k \in DOMAIN last_processed_timestamps[e] :
                      /\ k \in DOMAIN last_processed_timestamps'[e]
                      /\ last_processed_timestamps'[e][k] >= last_processed_timestamps[e][k]]_vars

\* an event older than the stored timestamp was throttled under a window >= 0,
\* after another caller's later timestamp had been stored first
C22_Witness ==
    \E t \in AllThreads :
        /\ Leaving(t, "should_process")
        /\ call[t].key \in DOMAIN snap[t].map
        /\ call[t].timestamp < snap[t].map[call[t].key]
        /\ snap[t].window >= 0
        /\ ret[t] = PyBool(FALSE)

\* the racing call of thread t has returned
Raced(t) == script[t] # <<>> /\ Remaining(t) = 0
\* the racing calls that returned True
RaceWinners == {t \in Workers : Raced(t) /\ user_results[t][Len(script[t])] = PyBool(TRUE)}
RaceCallOf(t) == script[t][Len(script[t])]
\* before the race the key was untracked, or stored a full window earlier
OpenBeforeRace ==
    LET race == RaceCallOf("t1")
        before == script["t1"][1]
    IN \/ Len(script["t1"]) = 1
       \/ before.key # race.key
       \/ race.timestamp - before.timestamp >= window[Main]

\* C21: with a positive window, of N concurrent should_process calls with the
\* same key and timestamp at most one returns True, whatever the interleaving,
\* and exactly one does when the key was untracked or a full window old.
C21_NoDoubleAcceptance ==
    /\ Cardinality(RaceWinners) <= 1
    /\ (\A t \in Workers : Remaining(t) = 0) =>
           (OpenBeforeRace => Cardinality(RaceWinners) = 1)

\* three threads raced on a key stored a full window earlier: one True, two False
C21_Witness ==
    /\ \A t \in Workers : Raced(t)
    /\ Len(script["t1"]) = 2
    /\ script["t1"][1].key = RaceCallOf("t1").key
    /\ OpenBeforeRace
    /\ Cardinality(RaceWinners) = 1

====
